---- MODULE Spec2Model ----
(***************************************************************************)
(* Model of the maze exploration engine of maze-with-api:                  *)
(*   src/src/app/shared/stores/maze.store.ts  (MazeStore)                  *)
(*   src/unnamed/part_000                     (App: onStartGame/startGame/ *)
(*                                             onResetGame)                *)
(*   src/src/app/shared/services/maze.service.ts (the remote gateway)      *)
(*                                                                         *)
(* JavaScript runs every handler to completion: one action of the model is *)
(* the code that runs between two suspension points (an await on a gateway *)
(* call).  Promise continuations and effects are microtasks; they run      *)
(* before the next HTTP response or click is handled.                      *)
(*                                                                         *)
(* The remote gateway is not part of the repository.  It is modelled from  *)
(* its contract: it holds one maze and one agent, start-game puts the      *)
(* agent on (0,0), discover lists the cells around the agent, move accepts *)
(* the agent's own cell or an adjacent cell with move = true, and every    *)
(* successful response returns new endpoints.  A call may also fail by     *)
(* network error or timeout; the gateway may then have moved the agent.    *)
(*                                                                         *)
(* Spec      the user starts a game only when no flow is in flight, and    *)
(*           may reset at any time; all mazes.                             *)
(* SpecRace  the user may also start a game while a flow is in flight;     *)
(*           the small mazes.                                              *)
(* SpecLive  Spec, where every gateway call returns and the microtasks run.*)
(***************************************************************************)
EXTENDS Integers, Sequences, FiniteSets, TLC

\* ------------------------------------------------------------- bounds
\* number of startGame() flows the user may launch (clicks on "start")
MaxStarts == 2
\* number of clicks on "reset"
MaxResets == 1
\* number of gateway calls that fail by network error / timeout
MaxFailures == 1

\* ------------------------------------------------------------- the mazes
\* A maze row is a sequence of cell letters; row 1 is y = 0, column 1 is x = 0.
\*   "P" path, "W" wall, "T" trap, "E" exit (stop), "L" exit that cannot be
\*   entered (stop with move = false).
Corridor  == << <<"P", "P", "E">>, <<"W", "W", "W">> >>
TwoRoutes == << <<"P", "P", "E">>, <<"W", "P", "P">> >>
DeadEnd   == << <<"P", "P", "E">>, <<"P", "W", "W">> >>
Trapped   == << <<"P", "T", "E">>, <<"P", "P", "L">> >>
Diamond   == << <<"P", "P", "E">>, <<"P", "P", "W">> >>
TrapAside == << <<"P", "P", "E">>, <<"T", "P", "L">> >>

Mazes == {Corridor, TwoRoutes, DeadEnd, Trapped, Diamond, TrapAside}

\* the mazes explored by two flows at once
RaceMazes == {Corridor, Trapped}

\* CELL_TYPE of a cell letter
CellValue(ch) ==
  CASE ch = "P" -> "path"
    [] ch = "W" -> "wall"
    [] ch = "T" -> "trap"
    [] ch = "E" -> "stop"
    [] ch = "L" -> "stop"

\* Cell.move of a cell letter
CellMove(ch) == ch \in {"P", "T", "E"}

\* CellCoordinates
Coord(x, y) == [x |-> x, y |-> y]

Origin == Coord(0, 0)

InMaze(m, x, y) == y + 1 \in 1..Len(m) /\ x + 1 \in 1..Len(m[y + 1])

\* the Cell the gateway reports for (x, y)
CellAt(m, x, y) ==
  [x |-> x, y |-> y, move |-> CellMove(m[y + 1][x + 1]),
   value |-> CellValue(m[y + 1][x + 1])]

\* order in which discover lists the surroundings of a position
Dirs == << [dx |-> 0, dy |-> 1], [dx |-> 1, dy |-> 0],
           [dx |-> 0, dy |-> -1], [dx |-> -1, dy |-> 0] >>

RECURSIVE SurroundingsFrom(_, _, _)
SurroundingsFrom(m, pos, i) ==
  IF i > Len(Dirs) THEN << >>
  ELSE LET x == pos.x + Dirs[i].dx
           y == pos.y + Dirs[i].dy
       IN  (IF InMaze(m, x, y) THEN << CellAt(m, x, y) >> ELSE << >>)
           \o SurroundingsFrom(m, pos, i + 1)

\* GET url_discover: the cells around the remote agent
GatewayDiscover(m, pos) == SurroundingsFrom(m, pos, 1)

Adjacent(a, b) ==
  \/ a.x = b.x /\ (a.y = b.y + 1 \/ b.y = a.y + 1)
  \/ a.y = b.y /\ (a.x = b.x + 1 \/ b.x = a.x + 1)

\* POST url_move: the gateway accepts a move onto the agent's own cell or
\* onto an adjacent cell that can be entered
GatewayMoveLegal(m, from, to) ==
  /\ InMaze(m, to.x, to.y)
  /\ CellAt(m, to.x, to.y).move
  /\ (to = from \/ Adjacent(from, to))

\* ApiResponse of start-game / move
ApiResponse(m, pos, tok) ==
  [position_x |-> pos.x, position_y |-> pos.y,
   dead |-> CellAt(m, pos.x, pos.y).value = "trap",
   win |-> CellAt(m, pos.x, pos.y).value = "stop",
   url_move |-> tok, url_discover |-> tok]


\* ------------------------------------------------------------- state
VARIABLES
  maze,        \* the maze held by the remote gateway
  agent,       \* position of the remote agent
  tokenCtr,    \* number of the endpoint returned with the last successful response
  reqCtr,      \* number of gateway requests issued so far
  failures,    \* gateway calls that failed by network error / timeout
  starts,      \* startGame() flows launched
  resets,      \* clicks on "reset"
  store,       \* the MazeStore's fields
  runs,        \* the startGame() flows: position in the code and local variables
  effectDirty, \* the constructor's effect is scheduled to run
  stepper      \* the promise of exploreNext() started by the effect

vars == << maze, agent, tokenCtr, reqCtr, failures, starts, resets, store,
           runs, effectDirty, stepper >>

RunIds == 1..MaxStarts

\* the empty string '' of _moveUrl / _discoverUrl
EmptyUrl == 0

\* coordKey: `${pos.x},${pos.y}` (also built inline from a Cell or a response)
coordKey(pos) == << pos.x, pos.y >>

\* ------------------------------------------------------------- MazeStore
\* reset() that leaves _isExploring armed
resetArmed ==
  [position |-> Coord(0, 0),
   map |-> [k \in {} |-> 0],
   isDead |-> FALSE,
   isWin |-> FALSE,
   moveUrl |-> EmptyUrl,
   discoverUrl |-> EmptyUrl,
   log |-> << >>,
   visited |-> {},
   isExploring |-> TRUE,
   results |-> << >>,
   isFinish |-> FALSE,
   isExploringNow |-> FALSE]

\* reset(): the values the fields are constructed with
reset ==
  [position |-> Coord(0, 0),
   map |-> [k \in {} |-> 0],
   isDead |-> FALSE,
   isWin |-> FALSE,
   moveUrl |-> EmptyUrl,
   discoverUrl |-> EmptyUrl,
   log |-> << >>,
   visited |-> {},
   isExploring |-> FALSE,
   results |-> << >>,
   isFinish |-> FALSE,
   isExploringNow |-> FALSE]

addLog(s, entry) == [s EXCEPT !.log = Append(s.log, entry)]

updateGameState(s, data, resetVisited) ==
  [s EXCEPT !.position = Coord(data.position_x, data.position_y),
            !.isDead = data.dead,
            !.isWin = data.win,
            !.moveUrl = data.url_move,
            !.discoverUrl = data.url_discover,
            !.visited = IF resetVisited
                        THEN {<< data.position_x, data.position_y >>}
                        ELSE s.visited \cup {<< data.position_x, data.position_y >>}]

updateFromStart(data) ==
  updateGameState([reset EXCEPT !.isExploring = TRUE], data, TRUE)

updateFromMove(s, data) == updateGameState(s, data, FALSE)

\* the keys of a list of cells
CellKeys(cells) == {coordKey(cells[i]) : i \in 1..Len(cells)}

\* the last cell of the list with key k (Map.set overwrites)
LastWithKey(cells, k) ==
  cells[CHOOSE i \in 1..Len(cells) :
          /\ coordKey(cells[i]) = k
          /\ \A j \in (i + 1)..Len(cells) : coordKey(cells[j]) # k]

\* discoverCells that starts from an empty Map instead of a copy of _map
discoverCellsFresh(s, cells) ==
  [s EXCEPT !.map = [k \in CellKeys(cells) |-> LastWithKey(cells, k)]]

discoverCells(s, cells) ==
  [s EXCEPT !.map =
     [k \in (DOMAIN s.map) \cup CellKeys(cells) |->
        IF k \in CellKeys(cells) THEN LastWithKey(cells, k) ELSE s.map[k]]]

finishExploration(s, message) ==
  addLog([s EXCEPT !.isExploring = FALSE], message)


\* ------------------------------------------------------------- a startGame() flow
NoReq == [kind |-> "none", url |-> EmptyUrl, x |-> 0, y |-> 0, n |-> 0]

\* pc: where the flow is suspended
\*   "idle"     not launched          "start"    await startGame(playerName)
\*   "move"     exploreFromCell: await tryMoveToCell(current)
\*   "discover" exploreFromCell: await getDiscoverableNeighbors()
\*   "return"   handleCellExploration: await returnToPrevious(current)
\*   "explored" explore() has returned, followShortestPath() is about to run
\*   "nav"      followShortestPath: await moveToCell(step)
\*   "done"     startGame() has returned
\* stack: the frames of exploreFromCell, the deepest last; a frame holds its
\*   path, the neighbors it iterates over and the index of the neighbor being handled
\* visited, allPaths: the locals of startExploration shared by all frames
\* marks: the calls of markVisited, in order
\* steps: the steps followShortestPath still has to walk (the first is in flight)
\* req: the gateway request the flow awaits
IdleRun ==
  [pc |-> "idle", stack |-> << >>, visited |-> {}, marks |-> << >>,
   allPaths |-> << >>, steps |-> << >>, req |-> NoReq]

DoneRun == [IdleRun EXCEPT !.pc = "done"]

\* A handler works on a context: the store, the flow's locals and the request counter.
Ctx(s, r, n) == [s |-> s, r |-> r, n |-> n]

Top(c) == c.r.stack[Len(c.r.stack)]

\* firstValueFrom(mazeService.<kind>(url, ...)): the request leaves, the flow suspends
Request(c, kind, url, pos, pc) ==
  [c EXCEPT !.r.req = [kind |-> kind, url |-> url, x |-> pos.x, y |-> pos.y,
                       n |-> c.n + 1],
            !.r.pc = pc,
            !.n = c.n + 1]

\* moveToCell with the position advanced before the gateway has answered
moveToCellOptimistic(c, pos, pc) ==
  Request([c EXCEPT !.s.position = pos], "move", c.s.moveUrl, pos, pc)

\* moveToCell(pos), up to its await: the request carries this._moveUrl()
moveToCell(c, pos, pc) == Request(c, "move", c.s.moveUrl, pos, pc)

\* discoverSurroundings(), up to its await: the request carries this._discoverUrl()
discoverSurroundings(c) ==
  Request(c, "discover", c.s.discoverUrl, Origin, "discover")

getCurrentCellFromPath(path) == path[Len(path)]

isVisited(key, visited) == key \in visited

\* markVisited that forgets the key
markVisitedNot(key, visited) == visited

\* markVisited that keeps only the key of the current cell
markVisitedOnlyLast(key, visited) == {key}

markVisited(key, visited) == visited \cup {key}

\* canExploreCell without the test for traps
canExploreCellTrap(cell, key, visited) == key \notin visited /\ cell.move

canExploreCell(cell, key, visited) ==
  key \notin visited /\ cell.move /\ cell.value # "trap"

buildNextPath(path, cell) == Append(path, Coord(cell.x, cell.y))

isGoalCell(cell) == cell.value = "stop"

\* recordExitPath that also publishes the paths found so far in _results
recordExitPathPublishes(c, path) ==
  [c EXCEPT !.r.allPaths = Append(c.r.allPaths,
                                  [path |-> path, length |-> Len(path)]),
            !.s = addLog([c.s EXCEPT !.results =
                            Append(c.r.allPaths, [path |-> path, length |-> Len(path)])],
                         "Sortie trouvee")]

\* recordExitPath: allPaths.push({path, length}); addLog
recordExitPath(c, path) ==
  [c EXCEPT !.r.allPaths = Append(c.r.allPaths,
                                  [path |-> path, length |-> Len(path)]),
            !.s = addLog(c.s, "Sortie trouvee")]

\* allPaths.sort((a, b) => a.length - b.length): a stable sort
RECURSIVE InsertByLength(_, _)
InsertByLength(sorted, e) ==
  IF sorted = << >> THEN << e >>
  ELSE IF sorted[Len(sorted)].length <= e.length THEN Append(sorted, e)
  ELSE Append(InsertByLength(SubSeq(sorted, 1, Len(sorted) - 1), e),
              sorted[Len(sorted)])

RECURSIVE SortByLengthUpTo(_, _)
SortByLengthUpTo(paths, n) ==
  IF n = 0 THEN << >>
  ELSE InsertByLength(SortByLengthUpTo(paths, n - 1), paths[n])

\* logPaths without the sort
sortPathsNot(allPaths) == allPaths

sortPaths(allPaths) == SortByLengthUpTo(allPaths, Len(allPaths))

RECURSIVE LogEach(_, _, _)
LogEach(s, entry, n) == IF n = 0 THEN s ELSE LogEach(addLog(s, entry), entry, n - 1)

\* logPaths(allPaths): sorts the array in place (it is the array _results holds)
\* and logs the summary
logPaths(s, allPaths) ==
  addLog(LogEach(addLog([s EXCEPT !.results = sortPaths(allPaths)], "Resume des chemins"),
                 "Chemin", Len(allPaths)),
         "Chemin le plus court")

\* explore(), after startExploration has returned allPaths
exploreEnd(c) ==
  LET s == IF c.r.allPaths = << >>
           THEN addLog(c.s, "Aucun chemin vers la sortie trouve")
           ELSE logPaths([c.s EXCEPT !.results = c.r.allPaths], c.r.allPaths)
  IN  [c EXCEPT !.s = s,
                !.r = [IdleRun EXCEPT !.pc = "explored"]]

\* a frame returns and handleCellExploration does not move back to current
frameReturnStays(c) ==
  LET popped == [c EXCEPT !.r.stack = SubSeq(c.r.stack, 1, Len(c.r.stack) - 1)]
  IN  IF popped.r.stack = << >>
      THEN exploreEnd(popped)
      ELSE moveToCell(popped, getCurrentCellFromPath(Top(c).path), "return")

\* a frame of exploreFromCell returns: the root frame returns to explore(),
\* another one to handleCellExploration, which goes on with returnToPrevious(current)
frameReturn(c) ==
  LET popped == [c EXCEPT !.r.stack = SubSeq(c.r.stack, 1, Len(c.r.stack) - 1)]
  IN  IF popped.r.stack = << >>
      THEN exploreEnd(popped)
      ELSE moveToCell(popped, getCurrentCellFromPath(Top(popped).path), "return")

\* exploreFromCell(path, visited, allPaths), up to its first await
exploreFromCell(c, path) ==
  LET key == coordKey(getCurrentCellFromPath(path))
      pushed == [c EXCEPT !.r.stack =
                   Append(c.r.stack, [path |-> path, neighbors |-> << >>, i |-> 0])]
  IN  IF isVisited(key, c.r.visited)
      THEN frameReturn(pushed)
      ELSE moveToCell([pushed EXCEPT !.r.visited = markVisited(key, c.r.visited),
                                     !.r.marks = Append(c.r.marks, key)],
                      getCurrentCellFromPath(path), "move")

\* exploreNeighbors / handleCellExploration: the loop over the neighbors of the
\* top frame, from the neighbor after the one handled last, up to the next await
RECURSIVE exploreNeighbors(_)
exploreNeighbors(c) ==
  LET f == Top(c)
      i == f.i + 1
      at == [c EXCEPT !.r.stack[Len(c.r.stack)].i = i]
  IN  IF i > Len(f.neighbors)
      THEN frameReturn(c)
      ELSE LET cell == f.neighbors[i]
               nextPath == buildNextPath(f.path, cell)
           IN  IF ~canExploreCell(cell, coordKey(cell), c.r.visited)
               THEN exploreNeighbors(at)
               ELSE IF isGoalCell(cell)
               THEN exploreNeighbors(recordExitPath(at, nextPath))
               ELSE exploreFromCell(at, nextPath)

\* the flow has left explore() by an exception
RejectedRun == [IdleRun EXCEPT !.pc = "rejected"]

\* tryMoveToCell without its catch: the failure of moveToCell leaves explore()
tryMoveToCellThrows(c) == [c EXCEPT !.r = RejectedRun]

\* tryMoveToCell: the catch logs and returns false, exploreFromCell returns
tryMoveToCellFailed(c) ==
  frameReturn([c EXCEPT !.s = addLog(c.s, "Erreur deplacement")])

\* getDiscoverableNeighbors that gives up the whole exploration on a failure
getDiscoverableNeighborsGivesUp(c) ==
  exploreEnd([c EXCEPT !.r.stack = << >>, !.r.allPaths = << >>])

\* getDiscoverableNeighbors: the catch returns null, exploreFromCell returns
getDiscoverableNeighborsNull(c) == frameReturn(c)

\* returnToPrevious: the catch logs, handleCellExploration returns and the
\* loop of exploreNeighbors goes on
returnToPreviousFailed(c) ==
  exploreNeighbors([c EXCEPT !.s = addLog(c.s, "Erreur retour arriere")])

\* followShortestPath() that returns without isFinish when there is no path
followShortestPathUnfinished(c) ==
  LET results == c.s.results
  IN  IF results = << >>
      THEN [c EXCEPT !.s = addLog(c.s, "Aucun chemin disponible"),
                     !.r = DoneRun]
      ELSE LET steps == Tail(results[1].path)
           IN  moveToCell([c EXCEPT !.s = addLog(c.s, "Debut du trajet"),
                                    !.r.steps = steps],
                          steps[1], "nav")

\* followShortestPath(), up to its first await
followShortestPath(c) ==
  LET results == c.s.results
  IN  IF results = << >>
      THEN [c EXCEPT !.s = [addLog(c.s, "Aucun chemin disponible")
                              EXCEPT !.isFinish = TRUE],
                     !.r = DoneRun]
      ELSE LET shortest == results[1]
               steps == Tail(shortest.path)
               started == [c EXCEPT !.s = addLog(c.s, "Debut du trajet"),
                                    !.r.steps = steps]
           IN  IF steps = << >>
               THEN [started EXCEPT
                       !.s = [finishExploration(started.s, "Arrive a la sortie")
                                EXCEPT !.isFinish = TRUE],
                       !.r = DoneRun]
               ELSE moveToCell(started, steps[1], "nav")

\* followShortestPath() that takes the exit for reached after its first step
followNextArrives(c) ==
  [c EXCEPT !.s = [finishExploration(addLog(c.s, "Deplacement"), "Arrive a la sortie")
                     EXCEPT !.isFinish = TRUE],
            !.r = DoneRun]

\* followShortestPath(): the loop goes on after a step that succeeded
followNext(c) ==
  LET rest == Tail(c.r.steps)
      logged == [c EXCEPT !.s = addLog(c.s, "Deplacement"), !.r.steps = rest]
  IN  IF rest = << >>
      THEN [logged EXCEPT
              !.s = [finishExploration(logged.s, "Arrive a la sortie")
                       EXCEPT !.isFinish = TRUE],
              !.r = DoneRun]
      ELSE moveToCell(logged, rest[1], "nav")

\* followShortestPath() that goes on with the next step after a step that failed
followStepFailedGoesOn(c) ==
  LET rest == Tail(c.r.steps)
      logged == [c EXCEPT !.s = addLog(c.s, "Echec deplacement"), !.r.steps = rest]
  IN  IF rest = << >>
      THEN [logged EXCEPT
              !.s = [finishExploration(logged.s, "Arrive a la sortie")
                       EXCEPT !.isFinish = TRUE],
              !.r = DoneRun]
      ELSE moveToCell(logged, rest[1], "nav")

\* followShortestPath(): the catch of a step that failed logs and returns
followStepFailed(c) ==
  [c EXCEPT !.s = addLog(c.s, "Echec deplacement"), !.r = DoneRun]


\* ------------------------------------------------------------- the stepper
\* exploreNext() that does not look at isExploringNow
exploreNextProceedsUnguarded(s) == ~(s.isWin \/ s.isDead)

\* exploreNext(): its first statement lets it go on only when the game is not
\* over and isExploringNow is false
exploreNextProceeds(s) == ~(s.isWin \/ s.isDead \/ s.isExploringNow)

\* the condition of the constructor's effect
effectCondition(s) ==
  s.discoverUrl # EmptyUrl /\ s.isExploring /\ ~s.isExploringNow

\* a signal the effect reads was set to another value
SignalsChanged(s, t) ==
  s.discoverUrl # t.discoverUrl \/ s.isExploring # t.isExploring

\* ------------------------------------------------------------- actions
Init ==
  /\ maze \in Mazes
  /\ agent = Origin
  /\ tokenCtr = 0
  /\ reqCtr = 0
  /\ failures = 0
  /\ starts = 0
  /\ resets = 0
  /\ store = reset
  /\ runs = [r \in RunIds |-> IdleRun]
  /\ effectDirty = FALSE
  /\ stepper = "idle"

\* no microtask is pending: the event loop takes the next click or HTTP response
Quiescent ==
  /\ ~effectDirty
  /\ stepper = "idle"
  /\ \A r \in RunIds : runs[r].pc # "explored"

\* the handler of flow r has run up to its next await with context c
Commit(r, c) ==
  /\ store' = c.s
  /\ runs' = [runs EXCEPT ![r] = c.r]
  /\ reqCtr' = c.n
  /\ effectDirty' = (effectDirty \/ SignalsChanged(store, c.s))

\* the request of flow r may fail by network error or timeout
MayFail == failures < MaxFailures

\* the move request of flow r is accepted by the gateway
MoveAccepted(r) ==
  /\ runs[r].req.url # EmptyUrl
  /\ GatewayMoveLegal(maze, agent, Coord(runs[r].req.x, runs[r].req.y))

\* the gateway performs the move of flow r and answers
GatewayMoves(r) ==
  /\ MoveAccepted(r)
  /\ agent' = Coord(runs[r].req.x, runs[r].req.y)
  /\ tokenCtr' = tokenCtr + 1
  /\ UNCHANGED << maze, failures, starts, resets, stepper >>

\* the move of flow r fails: the gateway refuses it, or the call fails by
\* network error or timeout (the gateway may then have performed the move)
GatewayFailsMove(r) ==
  /\ \/ /\ ~MoveAccepted(r)
        /\ UNCHANGED << agent, failures >>
     \/ /\ MayFail
        /\ failures' = failures + 1
        /\ agent' \in {agent} \cup
                      (IF MoveAccepted(r)
                       THEN {Coord(runs[r].req.x, runs[r].req.y)} ELSE {})
  /\ UNCHANGED << maze, tokenCtr, starts, resets, stepper >>

MoveData(r) ==
  ApiResponse(maze, Coord(runs[r].req.x, runs[r].req.y), tokenCtr + 1)

\* no startGame() flow is in flight
AllSettled == \A r \in RunIds : runs[r].pc \in {"idle", "done"}

\* startGame(playerName), up to await startGame
startGame ==
  /\ Quiescent
  /\ starts < MaxStarts
  /\ starts' = starts + 1
  /\ Commit(starts + 1,
            Request(Ctx(store, runs[starts + 1], reqCtr), "start", EmptyUrl,
                    Origin, "start"))
  /\ UNCHANGED << maze, agent, tokenCtr, failures, resets, stepper >>

\* App.onStartGame: the user starts a game while no flow is in flight
OnStartGame == AllSettled /\ startGame

\* App.onStartGame: the user starts a game while an earlier flow is in flight
OnStartGameAgain == ~AllSettled /\ startGame

\* App.onResetGame -> mazeStore.reset()
OnResetGame ==
  /\ Quiescent
  /\ resets < MaxResets
  /\ resets' = resets + 1
  /\ store' = reset
  /\ effectDirty' = (effectDirty \/ SignalsChanged(store, reset))
  /\ UNCHANGED << maze, agent, tokenCtr, reqCtr, failures, starts, runs, stepper >>

\* startGame: the start response arrives; updateFromStart(data); explore() runs
\* up to the first move request
StartOk(r) ==
  /\ Quiescent
  /\ runs[r].pc = "start"
  /\ agent' = Origin
  /\ tokenCtr' = tokenCtr + 1
  /\ LET s == updateFromStart(ApiResponse(maze, Origin, tokenCtr + 1))
         c == exploreFromCell(Ctx(s, IdleRun, reqCtr), << s.position >>)
     IN  /\ store' = c.s
         /\ runs' = [runs EXCEPT ![r] = c.r]
         /\ reqCtr' = c.n
         /\ effectDirty' = TRUE
  /\ UNCHANGED << maze, failures, starts, resets, stepper >>

\* startGame: the start request fails; the catch logs to the console
StartFail(r) ==
  /\ Quiescent
  /\ runs[r].pc = "start"
  /\ MayFail
  /\ failures' = failures + 1
  /\ runs' = [runs EXCEPT ![r] = DoneRun]
  /\ UNCHANGED << maze, agent, tokenCtr, reqCtr, starts, resets, store,
                  effectDirty, stepper >>

\* exploreFromCell: tryMoveToCell(current) succeeded; logExplorationStep;
\* getDiscoverableNeighbors() sends the discover request
MoveOk(r) ==
  /\ Quiescent
  /\ runs[r].pc = "move"
  /\ GatewayMoves(r)
  /\ Commit(r, discoverSurroundings(
                 Ctx(addLog(updateFromMove(store, MoveData(r)), "Exploration"),
                     runs[r], reqCtr)))

\* exploreFromCell: moveToCell threw (it logged), tryMoveToCell logs and returns
\* false, the frame returns
MoveFail(r) ==
  /\ Quiescent
  /\ runs[r].pc = "move"
  /\ GatewayFailsMove(r)
  /\ Commit(r, tryMoveToCellFailed(
                 Ctx(addLog(store, "Erreur lors du move"), runs[r], reqCtr)))

\* the discover request of flow r is answered
DiscoverAccepted(r) == runs[r].req.url # EmptyUrl

\* exploreFromCell: the neighbors arrive; discoverCells; exploreNeighbors
DiscoverOk(r) ==
  /\ Quiescent
  /\ runs[r].pc = "discover"
  /\ DiscoverAccepted(r)
  /\ LET cells == GatewayDiscover(maze, agent)
         n == Len(runs[r].stack)
     IN  Commit(r, exploreNeighbors(
                     Ctx(discoverCells(store, cells),
                         [runs[r] EXCEPT !.stack[n].neighbors = cells,
                                         !.stack[n].i = 0],
                         reqCtr)))
  /\ UNCHANGED << maze, agent, tokenCtr, failures, starts, resets, stepper >>

\* exploreFromCell: discoverSurroundings threw (it logged),
\* getDiscoverableNeighbors returns null, the frame returns
DiscoverFail(r) ==
  /\ Quiescent
  /\ runs[r].pc = "discover"
  /\ ~DiscoverAccepted(r) \/ MayFail
  /\ failures' = IF DiscoverAccepted(r) THEN failures + 1 ELSE failures
  /\ Commit(r, getDiscoverableNeighborsNull(
                 Ctx(addLog(store, "Erreur lors de la decouverte"), runs[r], reqCtr)))
  /\ UNCHANGED << maze, agent, tokenCtr, starts, resets, stepper >>

\* handleCellExploration: returnToPrevious(current) succeeded; the loop goes on
ReturnOk(r) ==
  /\ Quiescent
  /\ runs[r].pc = "return"
  /\ GatewayMoves(r)
  /\ Commit(r, exploreNeighbors(
                 Ctx(addLog(updateFromMove(store, MoveData(r)), "Retour"),
                     runs[r], reqCtr)))

\* handleCellExploration: returnToPrevious(current) failed and logged; the loop goes on
ReturnFail(r) ==
  /\ Quiescent
  /\ runs[r].pc = "return"
  /\ GatewayFailsMove(r)
  /\ Commit(r, returnToPreviousFailed(
                 Ctx(addLog(store, "Erreur lors du move"), runs[r], reqCtr)))

\* startGame: explore() has returned, followShortestPath() starts
FollowShortestPath(r) ==
  /\ runs[r].pc = "explored"
  /\ Commit(r, followShortestPath(Ctx(store, runs[r], reqCtr)))
  /\ UNCHANGED << maze, agent, tokenCtr, failures, starts, resets, stepper >>

\* followShortestPath: the step succeeded
NavOk(r) ==
  /\ Quiescent
  /\ runs[r].pc = "nav"
  /\ GatewayMoves(r)
  /\ Commit(r, followNext(Ctx(updateFromMove(store, MoveData(r)), runs[r], reqCtr)))

\* followShortestPath: the step failed; moveToCell logged, the catch logs and returns
NavFail(r) ==
  /\ Quiescent
  /\ runs[r].pc = "nav"
  /\ GatewayFailsMove(r)
  /\ Commit(r, followStepFailed(
                 Ctx(addLog(store, "Erreur lors du move"), runs[r], reqCtr)))

\* the constructor's effect runs
Effect ==
  /\ effectDirty
  /\ effectDirty' = FALSE
  /\ IF effectCondition(store)
     THEN /\ store' = [store EXCEPT !.isExploringNow = TRUE]
          /\ stepper' = IF exploreNextProceeds(store') THEN "discover" ELSE "finally"
     ELSE UNCHANGED << store, stepper >>
  /\ UNCHANGED << maze, agent, tokenCtr, reqCtr, failures, starts, resets, runs >>

\* exploreNext() has returned: .finally(() => isExploringNow = false)
EffectFinally ==
  /\ stepper = "finally"
  /\ stepper' = "idle"
  /\ store' = [store EXCEPT !.isExploringNow = FALSE]
  /\ UNCHANGED << maze, agent, tokenCtr, reqCtr, failures, starts, resets, runs,
                  effectDirty >>

Next ==
  \/ OnStartGame
  \/ OnResetGame
  \/ Effect
  \/ EffectFinally
  \/ \E r \in RunIds :
       \/ StartOk(r)
       \/ StartFail(r)
       \/ MoveOk(r)
       \/ MoveFail(r)
       \/ DiscoverOk(r)
       \/ DiscoverFail(r)
       \/ ReturnOk(r)
       \/ ReturnFail(r)
       \/ FollowShortestPath(r)
       \/ NavOk(r)
       \/ NavFail(r)

\* The user starts a new game only when the previous flow has returned
\* (and may reset at any time).
Spec == Init /\ [][Next]_vars

\* The user may also start a new game while a flow is in flight.
InitRace == Init /\ maze \in RaceMazes

NextRace == Next \/ OnStartGameAgain

SpecRace == InitRace /\ [][NextRace]_vars

\* a gateway call of flow r returns: its response, its failure or its timeout
\* (timeout(3000)) reaches the flow
CallReturns(r) ==
  \/ StartOk(r) \/ StartFail(r)
  \/ MoveOk(r) \/ MoveFail(r)
  \/ DiscoverOk(r) \/ DiscoverFail(r)
  \/ ReturnOk(r) \/ ReturnFail(r)
  \/ NavOk(r) \/ NavFail(r)

\* a pending microtask runs (the effect, its finally, the continuation of
\* startGame after explore()), or a gateway call returns
Progress ==
  \/ Effect
  \/ EffectFinally
  \/ \E r \in RunIds : FollowShortestPath(r) \/ CallReturns(r)

\* ENABLED <<Progress>>_vars, written out: a microtask is pending, or the event
\* loop is free and a flow awaits a gateway call
ProgressEnabled ==
  \/ effectDirty
  \/ stepper = "finally"
  \/ \E r \in RunIds : runs[r].pc = "explored"
  \/ Quiescent /\ \E r \in RunIds :
                    runs[r].pc \in {"start", "move", "discover", "return", "nav"}

\* Every gateway call returns and the microtasks run: WF_vars(Progress)
Fairness == []<>(~ProgressEnabled) \/ []<><<Progress>>_vars

SpecLive == Spec /\ Fairness


\* ------------------------------------------------------------- the claims
Awaiting == {"move", "discover", "return", "nav"}

\* C1: at any moment at most one exploration or navigation operation (a flow's
\* explore() or followShortestPath(), or a stepper tick) has a gateway call
\* outstanding, whatever the user does.
C1_OneCallOutstanding ==
  Cardinality({r \in RunIds : runs[r].pc \in Awaiting})
    + (IF stepper = "discover" THEN 1 ELSE 0) <= 1

\* the safe walks of maze m that extend path: they never revisit a cell, never
\* step on a trap, use only cells that can be entered, and end on a stop cell
RECURSIVE WalksFrom(_, _)
WalksFrom(m, path) ==
  LET last == path[Len(path)]
      nexts == {c \in {Coord(last.x + Dirs[i].dx, last.y + Dirs[i].dy) :
                         i \in 1..Len(Dirs)} :
                  /\ InMaze(m, c.x, c.y)
                  /\ CellAt(m, c.x, c.y).move
                  /\ CellAt(m, c.x, c.y).value # "trap"
                  /\ \A j \in 1..Len(path) : path[j] # c}
  IN  UNION {(IF CellAt(m, c.x, c.y).value = "stop"
              THEN {Append(path, c)} ELSE {})
             \cup WalksFrom(m, Append(path, c)) : c \in nexts}

SafeWalks(m) == WalksFrom(m, << Origin >>)

ErrorEntries ==
  {"Erreur lors du move", "Erreur deplacement", "Erreur lors de la decouverte",
   "Erreur retour arriere", "Echec deplacement"}

\* one flow was started and no gateway call failed
CleanRun ==
  /\ starts = 1 /\ resets = 0 /\ failures = 0
  /\ \A i \in 1..Len(store.log) : store.log[i] \notin ErrorEntries

\* explore() of the only flow has just returned and no gateway call failed
CleanRunExplored ==
  CleanRun /\ \E r \in RunIds : runs[r].pc = "explored"

IsSuffix(a, b) == Len(a) <= Len(b) /\ SubSeq(b, Len(b) - Len(a) + 1, Len(b)) = a

\* followShortestPath() walks results[0]: the steps left are the end of its
\* path and the move in flight goes to the first of them
ReplaysShortest ==
  \A r \in RunIds :
    runs[r].pc = "nav" =>
      /\ store.results # << >>
      /\ runs[r].steps # << >>
      /\ IsSuffix(runs[r].steps, Tail(store.results[1].path))
      /\ Coord(runs[r].req.x, runs[r].req.y) = runs[r].steps[1]

PathsOf(results) == {results[i].path : i \in 1..Len(results)}

\* C2: after a run in which no gateway call fails, the list produced by
\* explore() holds exactly the safe walks from the start cell to a stop cell,
\* one entry per walk.
C2_AllSafeWalks ==
  CleanRunExplored =>
    /\ PathsOf(store.results) = SafeWalks(maze)
    /\ Len(store.results) = Cardinality(SafeWalks(maze))

\* C3: after a run in which no gateway call fails, results[0] is a shortest
\* safe route of the maze (no safe walk has fewer cells), and
\* followShortestPath() replays exactly results[0].
C3_ShortestFirst ==
  /\ CleanRunExplored =>
       /\ SafeWalks(maze) # {} => store.results # << >>
       /\ store.results # << >> =>
            \A w \in SafeWalks(maze) : store.results[1].length <= Len(w)
  /\ CleanRun => ReplaysShortest

\* C4: in every state between two handlers, results is sorted ascending by length.
C4_ResultsSorted ==
  \A i \in 1..(Len(store.results) - 1) :
    store.results[i].length <= store.results[i + 1].length

\* two routes of different lengths are in results
C4_Witness ==
  /\ Len(store.results) >= 2
  /\ store.results[1].length < store.results[Len(store.results)].length

\* every path recorded so far: by the flows still exploring, and in results
Recorded ==
  UNION {PathsOf(runs[r].allPaths) : r \in RunIds} \cup PathsOf(store.results)

\* C5: no cell of a recorded path was reported by discovery as a trap, and
\* every cell after the first was reported with move = true.
C5_NoTrapInPaths ==
  \A path \in Recorded :
    \A i \in 1..Len(path) :
      /\ CellAt(maze, path[i].x, path[i].y).value # "trap"
      /\ i > 1 => CellAt(maze, path[i].x, path[i].y).move
      /\ coordKey(path[i]) \in DOMAIN store.map =>
           /\ store.map[coordKey(path[i])].value # "trap"
           /\ i > 1 => store.map[coordKey(path[i])].move

\* a path is recorded while a trap and an exit that cannot be entered were discovered
C5_Witness ==
  /\ Recorded # {}
  /\ \E k \in DOMAIN store.map : store.map[k].value = "trap"
  /\ \E k \in DOMAIN store.map : store.map[k].value = "stop" /\ ~store.map[k].move

NoRepeat(seq) == \A i, j \in 1..Len(seq) : i # j => seq[i] # seq[j]

\* C6: within one DFS run no key is added to visited more than once, and no
\* recorded path holds the same coordinate twice.
C6_VisitedOnce ==
  /\ \A r \in RunIds : NoRepeat(runs[r].marks)
  /\ \A r \in RunIds : runs[r].visited = {runs[r].marks[i] : i \in 1..Len(runs[r].marks)}
  /\ \A path \in Recorded : NoRepeat(path)

\* a run has marked four cells and recorded a path
C6_Witness ==
  \E r \in RunIds : Len(runs[r].marks) >= 4 /\ runs[r].allPaths # << >>


\* every entry recorded so far: by the flows still exploring, and in results
RecordedEntries ==
  UNION {{runs[r].allPaths[i] : i \in 1..Len(runs[r].allPaths)} : r \in RunIds}
    \cup {store.results[i] : i \in 1..Len(store.results)}

\* the cells the gateway lists when the agent stands on pos
DiscoveredFrom(pos) ==
  {Coord(GatewayDiscover(maze, pos)[i].x, GatewayDiscover(maze, pos)[i].y) :
     i \in 1..Len(GatewayDiscover(maze, pos))}

\* C7: every recorded PathCandidate starts at the cell where the run started,
\* ends on a stop cell, has length = number of cells, and each cell after the
\* first is one the gateway lists from its predecessor; no dead-end path is recorded.
C7_PathShape ==
  \A e \in RecordedEntries :
    /\ Len(e.path) >= 2
    /\ e.path[1] = Origin
    /\ CellAt(maze, e.path[Len(e.path)].x, e.path[Len(e.path)].y).value = "stop"
    /\ e.length = Len(e.path)
    /\ \A i \in 1..(Len(e.path) - 1) : e.path[i + 1] \in DiscoveredFrom(e.path[i])

\* the fields a gateway response sets
Confirmed(s) ==
  << s.position, s.isDead, s.isWin, s.moveUrl, s.discoverUrl, s.visited >>

\* a move or discover call of flow r fails
CallFails(r) == MoveFail(r) \/ DiscoverFail(r) \/ ReturnFail(r) \/ NavFail(r)

IsPrefix(a, b) == Len(a) <= Len(b) /\ SubSeq(b, 1, Len(a)) = a

\* C8: position, dead, win, the endpoints and the store's visited set change
\* only when a successful start or move response is applied or on reset; a
\* failed move or discover call leaves them unchanged and appends to the log.
C8_NoOptimisticUpdate ==
  [][/\ Confirmed(store') # Confirmed(store) =>
          tokenCtr' = tokenCtr + 1 \/ resets' = resets + 1
     /\ \A r \in RunIds :
          CallFails(r) =>
            /\ Confirmed(store') = Confirmed(store)
            /\ Len(store'.log) > Len(store.log)
            /\ IsPrefix(store.log, store'.log)]_vars

\* a move failed while the agent had left the start cell
C8_Witness ==
  /\ \E i \in 1..Len(store.log) : store.log[i] = "Erreur lors du move"
  /\ store.position # Origin
  /\ store.moveUrl # EmptyUrl

\* C9: every move and discover request carries the endpoint of the most
\* recently returned successful start or move response.
C9_FreshEndpoint ==
  [][\A r \in RunIds :
       (runs'[r].req.n # runs[r].req.n /\ runs'[r].req.kind \in {"move", "discover"})
         => runs'[r].req.url = tokenCtr']_vars

\* a session ends with a reset or with the start of a new game
SessionBoundary ==
  \/ resets' # resets
  \/ \E r \in RunIds : runs[r].pc = "start" /\ runs'[r].pc # "start"

\* C10: within a session the DiscoveredMap only grows: every discovered
\* coordinate stays a key of the map, the cell count does not decrease, and a
\* rediscovered coordinate holds the cell that was reported last.
C10_MapGrows ==
  [][~SessionBoundary =>
       /\ DOMAIN store.map \subseteq DOMAIN store'.map
       /\ Cardinality(DOMAIN store'.map) >= Cardinality(DOMAIN store.map)
       /\ \A k \in DOMAIN store'.map :
            store'.map[k] = CellAt(maze, k[1], k[2])]_vars

\* the results of several discover calls are merged, some cells rediscovered
C10_Witness ==
  /\ Cardinality(DOMAIN store.map) >= 5
  /\ Len(SelectSeq(store.log, LAMBDA e : e = "Exploration")) >= 3

\* the store as it is constructed
Pristine(s) ==
  /\ s.position = [x |-> 0, y |-> 0]
  /\ DOMAIN s.map = {}
  /\ s.visited = {}
  /\ s.results = << >>
  /\ s.log = << >>
  /\ s.moveUrl = EmptyUrl /\ s.discoverUrl = EmptyUrl
  /\ ~s.isDead /\ ~s.isWin /\ ~s.isExploring /\ ~s.isFinish /\ ~s.isExploringNow

\* C11: from any reachable state reset() yields the initial state (empty map,
\* visited, results and log, position (0,0), empty endpoints, every flag
\* false), and a reset() of a store that was just reset leaves it identical.
C11_ResetInitial ==
  [][resets' = resets + 1 =>
       /\ Pristine(store')
       /\ Pristine(store) => store' = store]_vars

\* reset() was called while a flow of the session was exploring
C11_Witness ==
  /\ resets >= 1
  /\ Pristine(store)
  /\ \E r \in RunIds : runs[r].pc \in {"move", "discover", "return"} /\ runs[r].visited # {}

\* the moves followShortestPath() has logged
Walked(s) == Len(SelectSeq(s.log, LAMBDA e : e = "Deplacement"))

\* the flow that ran alone, without a failure, has returned
CleanRunDone == CleanRun /\ \E r \in RunIds : runs[r].pc = "done"

\* C12: when results is not empty and every move succeeds, followShortestPath()
\* issues one move per coordinate of results[0].path after the first, in path
\* order and each after the previous one was confirmed, and then ends with
\* finished = true and exploring = false.
C12_WalksWholePath ==
  [][/\ \A r \in RunIds :
          /\ (FollowShortestPath(r) /\ store.results # << >>) =>
               /\ runs'[r].steps = Tail(store.results[1].path)
               /\ runs'[r].pc = "nav"
               /\ reqCtr' = reqCtr + 1
          /\ NavOk(r) =>
               /\ runs[r].steps # << >>
               /\ store'.position = runs[r].steps[1]
               /\ IF Len(runs[r].steps) > 1
                  THEN /\ runs'[r].steps = Tail(runs[r].steps)
                       /\ runs'[r].pc = "nav"
                       /\ reqCtr' = reqCtr + 1
                  ELSE /\ runs'[r].pc = "done"
                       /\ reqCtr' = reqCtr
                       /\ store'.isFinish /\ ~store'.isExploring
          /\ runs'[r].pc = "nav" =>
               /\ runs'[r].req.kind = "move"
               /\ Coord(runs'[r].req.x, runs'[r].req.y) = runs'[r].steps[1]
               /\ (runs[r].pc = "nav" /\ runs'[r].steps # runs[r].steps) => NavOk(r)
     /\ (CleanRunDone' /\ store'.results # << >>) =>
          /\ Walked(store') = Len(store'.results[1].path) - 1
          /\ store'.position = store'.results[1].path[Len(store'.results[1].path)]
          /\ store'.isFinish /\ ~store'.isExploring]_vars

\* a path of five cells was walked to its end
C12_Witness ==
  /\ CleanRunDone
  /\ store.results # << >>
  /\ Walked(store) = 4
  /\ store.isFinish

\* C13: when a move of followShortestPath() fails or times out, no further
\* move is issued for that run, a failure entry is appended to the log,
\* finished is not set (it is false when no other flow was launched) and the
\* position stays where the last confirmed step put it.
C13_StopsOnFailure ==
  [][\A r \in RunIds :
       NavFail(r) =>
         /\ runs'[r].pc = "done"
         /\ reqCtr' = reqCtr
         /\ Len(store'.log) > Len(store.log)
         /\ IsPrefix(store.log, store'.log)
         /\ store'.log[Len(store'.log)] = "Echec deplacement"
         /\ store'.isFinish = store.isFinish
         /\ starts = 1 => ~store'.isFinish
         /\ store'.position = store.position]_vars

\* the second step of a walk failed
C13_Witness ==
  /\ store.log # << >>
  /\ store.log[Len(store.log)] = "Echec deplacement"
  /\ Walked(store) >= 1
  /\ store.position # Origin
  /\ ~store.isFinish
  /\ \E r \in RunIds : runs[r].pc = "done"

\* C14: when results is empty at the start of followShortestPath(), it issues
\* no gateway call, logs that no path is available and sets finished = true.
C14_NoPathFinishes ==
  [][\A r \in RunIds :
       (FollowShortestPath(r) /\ store.results = << >>) =>
         /\ reqCtr' = reqCtr
         /\ runs'[r].pc = "done"
         /\ runs'[r].req = NoReq
         /\ store'.log = Append(store.log, "Aucun chemin disponible")
         /\ store'.isFinish]_vars

\* a maze without a safe route was explored without a failure
C14_Witness ==
  /\ CleanRunDone
  /\ store.results = << >>
  /\ store.isFinish
  /\ Cardinality(store.visited) >= 3

\* where a flow can be after one of its handlers has run
NormalPcs == {"idle", "start", "move", "discover", "return", "explored", "nav", "done"}

\* C15: no gateway failure or timeout leaves explore() or followShortestPath()
\* as an exception: after every failing move or discover call the flow goes
\* on or returns normally, and the failure has appended to the log.
C15_NoRejection ==
  [][/\ \A r \in RunIds : runs'[r].pc \in NormalPcs
     /\ \A r \in RunIds :
          CallFails(r) =>
            /\ runs'[r].pc \in {"move", "discover", "return", "explored", "done"}
            /\ \E i \in (Len(store.log) + 1)..Len(store'.log) :
                 store'.log[i] \in ErrorEntries]_vars

\* a flow has returned after a discover call failed during its exploration
C15_Witness ==
  /\ \E r \in RunIds : runs[r].pc = "done"
  /\ \E i \in 1..Len(store.log) : store.log[i] = "Erreur lors de la decouverte"
  /\ failures >= 1

\* C16: whenever exploring is true, a discovery endpoint is set and no tick is
\* in flight, the stepper performs a tick: exploreNext() sends a discover
\* request (and then moves to the first safe unvisited neighbour).
C16_StepperTicks ==
  [][(Effect /\ effectCondition(store) /\ ~store.isWin /\ ~store.isDead)
       => stepper' = "discover"]_vars

\* the flows executing frames of the DFS
Exploring == {r \in RunIds : runs[r].pc \in {"move", "discover", "return"}}

\* C17: results is emptied by reset() and updateFromStart() and is written
\* otherwise only by the handler in which an exploration run completes, with
\* the paths of that run (never by a handler after which frames of the run
\* are still executing); a run that found no exit leaves it unchanged.
C17_ResultsAtEnd ==
  [][/\ store'.results # store.results =>
          \/ SessionBoundary /\ store'.results = << >>
          \/ \E r \in Exploring :
               /\ runs'[r].pc = "explored"
               /\ store'.results # << >>
               /\ \A i \in 1..Len(runs[r].allPaths) :
                    \E j \in 1..Len(store'.results) :
                      store'.results[j] = runs[r].allPaths[i]
     /\ \A r \in Exploring :
          /\ (runs'[r] # runs[r] /\ runs'[r].pc \in {"move", "discover", "return"})
               => store'.results = store.results
          /\ (/\ runs'[r].pc = "explored"
              /\ store'.log[Len(store'.log)] = "Aucun chemin vers la sortie trouve")
               => store'.results = store.results]_vars

\* a run has recorded a path and is still backtracking: results is empty
C17_Witness ==
  /\ store.results = << >>
  /\ starts = 1 /\ resets = 0
  /\ \E r \in RunIds : runs[r].pc = "return" /\ runs[r].allPaths # << >>

\* C18: every forward move of the DFS into a neighbour of a frame's cell
\* current is issued while the confirmed position is current, and when the
\* recursive call has returned the next request is the backtracking move to
\* current.
C18_SiblingsFromCurrent ==
  [][\A r \in RunIds :
       runs'[r].req.n # runs[r].req.n =>
         LET stack == runs'[r].stack
             path == stack[Len(stack)].path
         IN  /\ (runs'[r].pc = "move" /\ Len(path) >= 2) =>
                  /\ Coord(runs'[r].req.x, runs'[r].req.y) = path[Len(path)]
                  /\ store'.position = path[Len(path) - 1]
             /\ runs'[r].pc = "return" =>
                  Coord(runs'[r].req.x, runs'[r].req.y) = path[Len(path)]]_vars

\* every entry of the list paths is an entry of results
KeptIn(paths, results) ==
  \A i \in 1..Len(paths) : \E j \in 1..Len(results) : results[j] = paths[i]

\* C19: a move or discover failure inside a DFS frame abandons only that
\* frame: the recorded paths are kept, the parent frame issues its backtrack
\* move and goes on with its remaining siblings, and the paths of the other
\* branches are in results when the run ends.
C19_FailureLocal ==
  [][\A r \in Exploring :
       LET stack == runs[r].stack
           n == Len(stack)
       IN  /\ (MoveFail(r) \/ DiscoverFail(r)) =>
                IF n > 1
                THEN /\ runs'[r].pc = "return"
                     /\ runs'[r].req.n = reqCtr + 1
                     /\ runs'[r].stack = SubSeq(stack, 1, n - 1)
                     /\ Coord(runs'[r].req.x, runs'[r].req.y)
                          = getCurrentCellFromPath(stack[n - 1].path)
                     /\ runs'[r].allPaths = runs[r].allPaths
                ELSE /\ runs'[r].pc = "explored"
                     /\ KeptIn(runs[r].allPaths, store'.results)
           /\ ((ReturnOk(r) \/ ReturnFail(r)) /\ Len(runs'[r].stack) > n) =>
                /\ runs'[r].stack[n].neighbors = stack[n].neighbors
                /\ runs'[r].stack[n].i > stack[n].i
                /\ runs'[r].pc = "move"
           /\ runs'[r].pc \in {"move", "discover", "return"} =>
                IsPrefix(runs[r].allPaths, runs'[r].allPaths)
           /\ runs'[r].pc = "explored" =>
                KeptIn(runs[r].allPaths, store'.results)]_vars

\* a discover call failed in a frame below the root and a sibling branch
\* has given a path
C19_Witness ==
  /\ starts = 1 /\ resets = 0
  /\ store.results # << >>
  /\ \E i \in 1..Len(store.log) : store.log[i] = "Erreur lors de la decouverte"

\* the cells of maze m
Cells(m) == {Coord(x, y) : x \in 0..(Len(m[1]) - 1), y \in 0..(Len(m) - 1)}

\* the cells that can be entered and are no trap
SafeCells(m) ==
  {c \in Cells(m) : CellAt(m, c.x, c.y).move /\ CellAt(m, c.x, c.y).value # "trap"}

RECURSIVE ReachableFrom(_, _)
ReachableFrom(m, S) ==
  LET T == S \cup {c \in SafeCells(m) : \E d \in S : Adjacent(c, d)}
  IN  IF T = S THEN S ELSE ReachableFrom(m, T)

\* the non-trap cells that can be reached from the start cell
ReachableNonTrap(m) == ReachableFrom(m, {Origin})

\* C20: when every gateway call returns (success, failure or timeout),
\* explore() completes, and the recursion of the DFS is never deeper than the
\* number of reachable non-trap cells.
C20_Terminates ==
  /\ [](\A r \in RunIds : Len(runs[r].stack) <= Cardinality(ReachableNonTrap(maze)))
  /\ (Exploring # {}) ~> (Exploring = {})

\* the DFS is four frames deep
C20_Witness ==
  \E r \in RunIds : Len(runs[r].stack) = 4 /\ runs[r].pc = "discover"

\* flow r sends a move or discover request in this step
Issues(r) ==
  /\ runs'[r].req.n # runs[r].req.n
  /\ runs'[r].req.kind \in {"move", "discover"}

\* the game is over: a response with dead or win was applied
GameOver(s) == s.isDead \/ s.isWin

\* C21: once a start or move response with dead = true or win = true is
\* applied, no move or discover request is issued (by the DFS, by
\* followShortestPath() or by the stepper) until a reset or a new start.
C21_NoCallAfterEnd ==
  [][/\ \A r \in RunIds :
          Issues(r) =>
            /\ ~GameOver(store')
            /\ GameOver(store) => runs[r].pc = "start"
     /\ (GameOver(store) \/ GameOver(store')) => stepper' # "discover"]_vars

\* C22: a later session is not affected by an earlier run: when reset() was
\* called while a flow had a gateway call outstanding, the arrival of that
\* call's response or failure, and what the old run does next, change
\* nothing of the store.
C22_OldRunIsolated ==
  [][\A r \in RunIds :
       (/\ Pristine(store)
        /\ runs[r].pc \in Awaiting
        /\ runs'[r] # runs[r])
         => store' = store]_vars

C24_BackAtStart ==
  [][/\ CleanRunExplored' =>
          /\ store'.position = Origin
          /\ agent' = Origin
          /\ \A i \in 1..Len(store'.results) : store'.results[i].path[1] = store'.position
     /\ \A r \in RunIds :
          (CleanRunExplored /\ FollowShortestPath(r) /\ store.results # << >>) =>
            /\ store.position = store.results[1].path[1]
            /\ Coord(runs'[r].req.x, runs'[r].req.y) = store.results[1].path[2]
            /\ Adjacent(agent, store.results[1].path[2])]_vars

\* the first move of the walk is in flight after a run that found two routes
C24_Witness ==
  /\ CleanRun
  /\ Len(store.results) >= 2
  /\ store.position = Origin
  /\ \E r \in RunIds :
       /\ runs[r].pc = "nav"
       /\ runs[r].steps = Tail(store.results[1].path)

====
